---- MODULE Spec2Model ----
(***************************************************************************)
(* A model of the GPIO pulse counter: the peer listener (app/peer_sync.py) *)
(* and the measurement engine PulseCounter (app/gpio_counter.py) with its  *)
(* singleton guard (app/pid_guard.py).                                     *)
(*                                                                         *)
(* An optional value is a sequence: None is <<>>, a value x is <<x>>.      *)
(***************************************************************************)
EXTENDS Integers, Sequences, FiniteSets, TLC

None == <<>>
Some(x) == <<x>>
Val(o) == o[1]
Opt(S) == {None} \cup {Some(x) : x \in S}

(***************************************************************************)
(* Bounds of the model.                                                    *)
(***************************************************************************)
MaxTelegrams == 2      \* arbitration candidates received by the listener
MaxPeerClock == 31     \* wall clock of the listener, in seconds
MaxRuns == 1           \* successful start() calls
MaxCalls == 3          \* calls of start(), stop() and status() (lifecycle)
MaxLifeTime == 1       \* monotonic clock, lifecycle specification
MaxWinCalls == 2       \* calls of start() and stop(), window specification
MaxWinTime == 3        \* monotonic clock, window specification
MaxWinPulses == 2      \* pulses counted, window specification
MaxRingTime == 8       \* monotonic clock, ring specification
MaxRingPulses == 7     \* pulses counted, ring specification
MaxSteadyTime == 7     \* monotonic clock, steady-source specification
MaxPromptTime == 7     \* monotonic clock, steady source with a prompt loop
MaxCalSteps == 4       \* calls of _apply_calibration, calibration alone
MaxCalWindow == 2      \* window_sec of a call, calibration alone
MaxCalCount == 3       \* pulses in the window of a call, calibration alone
MaxLockTime == 1       \* monotonic clock, calibration inside the loop
MaxLockPulses == 1     \* pulses counted, calibration inside the loop
MaxControlTime == 3    \* clock units, loop beside the control endpoints
MaxDelayTime == 4      \* clock units, loop with late ticks
MaxDelayPulses == 1    \* pulses counted, loop with late ticks
MaxTeleTime == 7       \* clock units, telegram branch
MaxTornTime == 2       \* clock units, loop beside the listener
MaxTornCalls == 3      \* calls of start() and status(), loop beside the listener
MaxOverlapCalls == 3   \* calls of start() and stop(), two loop threads
MaxOverlapTime == 2    \* clock units, two loop threads
MaxOverlapPulses == 1  \* pulses counted, two loop threads
MaxCsvRows == 7        \* rows written, writer specification
CsvMaxBytes == 3       \* max_bytes of the writer, every line counted as one unit
CsvBackupCount == 2    \* backup_count of the writer
MaxDriftSteps == 110   \* drift specification: z from 1 - 110/DriftUnit to 1 + 110/DriftUnit
DriftUnit == 20000     \* drift specification: the denominator of the z values

VARIABLES
  \* ---- PeerSync (app/peer_sync.py)
  best_peer_rate,      \* self.best_peer_rate
  best_peer_quality,   \* self.best_peer_quality
  best_peer_jitter,    \* self.best_peer_jitter
  best_peer_ip,        \* self.best_peer_ip
  last_seen,           \* local dict of _loop: address -> time of last datagram
  peer_thread,         \* the listener thread: "running" or "crashed"
  peer_clock,          \* time.time() as the listener reads it
  \* ---- history of the listener, for the properties only
  peer_candidates,     \* complete telegrams with quality OK and a jitter, in arrival order
  peer_last,           \* the payload handled by the last iteration of _loop
  peer_best_before     \* best (rate, quality, jitter, ip) before that iteration

VARIABLES
  \* ---- PulseCounter (app/gpio_counter.py)
  running,             \* self._running
  stop_evt,            \* self._stop_evt is set
  thread,              \* self._thread: the id of a loop thread, or None
  chip,                \* self._chip: the open gpiochip handle, or None
  cb,                  \* self._cb: the registered lgpio callback, or None
  seq,                 \* self._seq
  count_total,         \* self._count_total
  window_count0,       \* self._window_count0
  t0,                  \* self._t0
  last_window_sec,     \* self._last_window_sec
  z_last_emit,         \* self._z_last_emit
  z_ref_times,         \* self._z_ref_times, a deque(maxlen = REF_WINDOW_PULSES + 1)
  \* ---- threads
  loops,               \* the _run threads, by id: position and locals
  mocks,               \* the _mock generator thread started by each _run
  callers,             \* the threads inside stop()
  \* ---- environment and collaborators
  now,                 \* time.monotonic(), in clock units of 0.1 s
  pidfile,             \* PidGuard: what logger.pid holds
  rows,                \* the rows CsvRotatingWriter.write_row has appended
  cfg,                 \* the configuration read from the environment at import
  \* ---- history, for the properties only
  runs,                \* number of successful start() calls = id of the newest loop thread
  calls,               \* number of calls begun
  ret,                 \* the call that returned last, and what it returned
  stops,               \* per run: the number of stop() calls that returned True
  rows_at_stop         \* the number of rows when the last stop() returned True,
                       \* until the next start()

VARIABLES
  \* ---- PulseCounter: calibration and what the rows report
  i_term,              \* self._i_term
  ppm_offset,          \* self._ppm_offset
  rate_target,         \* self._rate_target
  peer_rate_hz,        \* self._peer_rate_hz
  peer_quality,        \* self._peer_quality
  last_z,              \* self._last_z
  last_rate_hz         \* self._last_rate_hz

VARIABLES
  \* ---- CsvRotatingWriter (app/csv_logger.py)
  csv_file,            \* run.csv: its lines, the header first
  csv_backups          \* run.csv.1, run.csv.2, ...: the lines of each, or None

calVars == <<i_term, ppm_offset, rate_target, peer_rate_hz, peer_quality, last_z,
             last_rate_hz>>
csvVars == <<csv_file, csv_backups>>

engVars == <<running, stop_evt, thread, chip, cb, seq, count_total,
             window_count0, t0, last_window_sec, z_last_emit, z_ref_times,
             loops, mocks, callers, now, pidfile, rows, cfg, runs, calls, ret,
             stops, rows_at_stop, calVars, csvVars>>

peerVars == <<best_peer_rate, best_peer_quality, best_peer_jitter, best_peer_ip,
              last_seen, peer_thread, peer_clock,
              peer_candidates, peer_last, peer_best_before>>

vars == <<peerVars, engVars>>

(***************************************************************************)
(* PeerSync                                                                *)
(***************************************************************************)
Addrs == {"10.0.0.1", "10.0.0.2"}
PeerRates == {9, 10}            \* rate_hz values on the wire
PeerJitters == {1, 2}           \* jitter values on the wire, in 1e-3
PeerQualities == {"OK", "WARN"}
PeerGaps == {31}                \* seconds by which the wall clock moves at once
PeerExpireSec == 30

\* What recvfrom hands to one iteration of _loop:
\*   timeout      socket.timeout, data = None
\*   empty        a zero-length datagram
\*   undecodable  bytes that are not UTF-8
\*   badjson      text that is not JSON
\*   nonobject    valid JSON that is not an object (a list, a number, null, ...)
\*   object       a JSON object; a missing key and a null value both read as None
Payloads ==
  { [kind |-> k, rate |-> None, quality |-> None, jitter |-> None] :
      k \in {"timeout", "empty", "undecodable", "badjson", "nonobject"} }
  \cup
  [kind : {"object"}, rate : Opt(PeerRates),
   quality : Opt(PeerQualities), jitter : Opt(PeerJitters)]

BestPeer == <<best_peer_rate, best_peer_quality, best_peer_jitter, best_peer_ip>>

PeerInit ==
  /\ best_peer_rate = None
  /\ best_peer_quality = None
  /\ best_peer_jitter = None
  /\ best_peer_ip = None
  /\ last_seen = [a \in Addrs |-> None]
  /\ peer_thread = "running"
  /\ peer_clock = 0
  /\ peer_candidates = <<>>
  /\ peer_last = [kind |-> "none", rate |-> None, quality |-> None, jitter |-> None]
  /\ peer_best_before = <<None, None, None, None>>

\* drop = [k for k,v in last_seen.items() if now - v > 30]; pop each
PeerExpire(seen, t) ==
  [a \in Addrs |->
     IF seen[a] # None /\ t - Val(seen[a]) > PeerExpireSec THEN None ELSE seen[a]]

\* (self.best_peer_jitter is None) or (j < self.best_peer_jitter)
PeerBetterOrEqual(j, bestj) == bestj = None \/ Val(j) <= Val(bestj)
PeerBetter(j, bestj) == bestj = None \/ Val(j) < Val(bestj)

\* A telegram that takes part in the arbitration: complete (rate_hz and quality
\* present), quality OK, and a jitter.
IsCandidate(p) ==
  p.kind = "object" /\ p.rate # None /\ p.quality = Some("OK") /\ p.jitter # None

\* The wall clock moves on.
PeerClockTick ==
  /\ \E d \in PeerGaps :
       /\ peer_clock + d <= MaxPeerClock
       /\ peer_clock' = peer_clock + d
  /\ UNCHANGED <<best_peer_rate, best_peer_quality, best_peer_jitter, best_peer_ip,
                 last_seen, peer_thread, peer_candidates, peer_last, peer_best_before>>

\* One iteration of the while loop of _loop, for payload p from address a.
PeerRecv(p, a) ==
  /\ peer_thread = "running"
  /\ IsCandidate(p) => Len(peer_candidates) < MaxTelegrams
  /\ UNCHANGED peer_clock
  /\ peer_last' = p
  /\ peer_best_before' = BestPeer
  /\ peer_candidates' =
       IF IsCandidate(p)
       THEN Append(peer_candidates,
                   [rate |-> Val(p.rate), jitter |-> Val(p.jitter), ip |-> a])
       ELSE peer_candidates
  /\ IF p.kind \in {"timeout", "empty"}
     THEN \* if not data: expire, continue
          /\ last_seen' = PeerExpire(last_seen, peer_clock)
          /\ UNCHANGED <<best_peer_rate, best_peer_quality, best_peer_jitter,
                         best_peer_ip, peer_thread>>
     ELSE /\ last_seen' = [last_seen EXCEPT ![a] = Some(peer_clock)]
          /\ CASE p.kind \in {"undecodable", "badjson"} ->
                    \* json.loads(data.decode()) raises: except Exception: continue
                    UNCHANGED <<best_peer_rate, best_peer_quality, best_peer_jitter,
                                best_peer_ip, peer_thread>>
               [] p.kind = "nonobject" ->
                    \* obj.get raises AttributeError outside the try: the thread ends
                    /\ peer_thread' = "crashed"
                    /\ UNCHANGED <<best_peer_rate, best_peer_quality, best_peer_jitter,
                                   best_peer_ip>>
               [] p.kind = "object" ->
                    /\ UNCHANGED peer_thread
                    /\ IF /\ p.rate # None
                          /\ p.quality # None
                          /\ p.quality = Some("OK")
                          /\ p.jitter # None
                          /\ PeerBetter(p.jitter, best_peer_jitter)
                       THEN /\ best_peer_rate' = p.rate
                            /\ best_peer_quality' = p.quality
                            /\ best_peer_jitter' = p.jitter
                            /\ best_peer_ip' = Some(a)
                       ELSE UNCHANGED <<best_peer_rate, best_peer_quality,
                                        best_peer_jitter, best_peer_ip>>

PeerLoop == \E p \in Payloads, a \in Addrs : PeerRecv(p, a)


(***************************************************************************)
(* CsvRotatingWriter (app/csv_logger.py)                                   *)
(*                                                                         *)
(* A file is the sequence of its lines; os.path.getsize counts every line  *)
(* as one unit. A backup that does not exist is None.                      *)
(***************************************************************************)
\* The header block _ensure_header writes into an empty file.
CsvHeader == [status |-> "header"]

\* _ensure_header: write the header if the file is missing or empty
CsvEnsureHeader(f) == IF Len(f) = 0 THEN <<CsvHeader>> ELSE f

\* The loop of rotate_if_needed, for i = i, i - 1, ..., 1: remove the backup
\* numbered backup_count, rename every other one to the next number.
CsvShiftKeepsNothing(b, i) == b
RECURSIVE CsvShift(_, _)
CsvShift(b, i) ==
  IF i = 0 THEN b
  ELSE LET b1 ==
             IF b[i] # None
             THEN IF i = CsvBackupCount
                  THEN [b EXCEPT ![i] = None]
                  ELSE [b EXCEPT ![i + 1] = b[i], ![i] = None]
             ELSE b
       IN CsvShift(b1, i - 1)

\* rotate_if_needed on the file f and the backups b
CsvRotateIfNeeded(f, b) ==
  IF Len(f) < CsvMaxBytes
  THEN [file |-> f, backups |-> b]
  ELSE [file |-> CsvEnsureHeader(<<>>),
        backups |-> [CsvShift(b, CsvBackupCount) EXCEPT ![1] = Some(f)]]

\* write_row, lines 75-78: rotate if needed, then append the line
CsvWriteRow(f, b, line) ==
  LET r == CsvRotateIfNeeded(f, b)
  IN [file |-> Append(r.file, line), backups |-> r.backups]

(***************************************************************************)
(* PulseCounter: configuration                                             *)
(*                                                                         *)
(* Monotonic time is counted in clock units of 0.1 s; two reads of the     *)
(* clock within one unit return the same value.                            *)
(***************************************************************************)
REF_WINDOW_PULSES == 5    \* REF_WINDOW_PULSES (the source's default is 100)
TIME_WINDOW_SEC == 1      \* TIME_WINDOW_SEC, in clock units
Z_SEND_INTERVAL_SEC == 0  \* Z_SEND_INTERVAL_SEC, in clock units: below one unit
DueTolerance == 2         \* the 0.2 s of the due test, in clock units

RATE_TARGET == 1          \* RATE_TARGET, in pulses per clock unit (10 Hz)

Callers == {"c1", "c2"}
\* The loop threads: the thread of a first start() and the thread of a second.
Tids == {1, 2}

\* cfg.use_mock:  FORCE_MOCK or not _HAVE_LGPIO
\* cfg.z_send:    Z_SEND_ENABLED and a z_sender is attached
\* cfg.cal_on:    self._cal_on, set from CAL_ON; /api/cal_on and /api/cal_off
\*                switch it (SetCal)
\* cfg.peer_lock: PEER_LOCK_ON
Configs == [use_mock : BOOLEAN, z_send : BOOLEAN, cal_on : {FALSE}, peer_lock : {FALSE}]

\* logger.pid (the variable pidfile): "absent", holding this process's pid
\* ("self"), the pid of another live process ("alive"), or a dead pid or text that
\* is no number ("stale").

CallerIdle == [pc |-> "idle", run |-> 0, h |-> 0]
\* A loop thread: its position, the locals of _run (now, dt, dc; loc.z with
\* zbound telling whether the name z is bound; loc.warmup, loc.quality,
\* loc.lock_state, loc.drift), and for the properties the time of its setup
\* (start), the total count when start() made it (loc.count0) and what its last
\* calibration step used (loc.cal); loc.row holds the arguments evaluated for a
\* write_row or emit_peer call that has not been made or has not returned, and
\* loc.tele the telegram the thread sent last.
LoopNone == [pc |-> "none", stalled |-> FALSE, err |-> "none",
             now |-> 0, dt |-> 0, dc |-> 0, zbound |-> FALSE, start |-> 0,
             loc |-> [z |-> None, warmup |-> FALSE, quality |-> "none",
                      lock_state |-> "none", drift |-> "none", cal |-> None,
                      count0 |-> 0, row |-> None, tele |-> None]]

EngInit(c, f) ==
  /\ running = FALSE
  /\ stop_evt = FALSE
  /\ thread = None
  /\ chip = None
  /\ cb = None
  /\ seq = 0
  /\ count_total = 0
  /\ window_count0 = 0
  /\ t0 = 0
  /\ last_window_sec = TIME_WINDOW_SEC
  /\ z_last_emit = 0
  /\ z_ref_times = <<>>
  /\ loops = [t \in Tids |-> LoopNone]
  /\ mocks = [t \in Tids |-> "none"]
  /\ callers = [k \in Callers |-> CallerIdle]
  /\ now = 0
  /\ pidfile = f
  /\ rows = <<>>
  /\ cfg = c
  /\ runs = 0
  /\ calls = 0
  /\ ret = [op |-> "none", res |-> "none"]
  /\ stops = [t \in Tids |-> 0]
  /\ rows_at_stop = None
  /\ i_term = [num |-> 0, den |-> 1]
  /\ ppm_offset = [num |-> 0, den |-> 1]
  /\ rate_target = [num |-> RATE_TARGET, den |-> 1]
  /\ peer_rate_hz = None
  /\ peer_quality = None
  /\ last_z = None
  /\ last_rate_hz = [num |-> 0, den |-> 1]
  /\ csv_file = <<CsvHeader>>
  /\ csv_backups = [i \in 1..CsvBackupCount |-> None]

(***************************************************************************)
(* PidGuard (app/pid_guard.py)                                             *)
(***************************************************************************)
\* acquire() returns False when the file holds the pid of a live process; a dead
\* pid or unreadable text raises inside the try and the file is overwritten.
PidAcquire(f) == f \notin {"self", "alive"}

\* release(): remove the file if it exists
PidRelease(f) == "absent"

(***************************************************************************)
(* PulseCounter: the acquisition callback and the window                   *)
(***************************************************************************)
\* deque(maxlen = REF_WINDOW_PULSES + 1).append
DequeAppendUnbounded(q, x) == Append(q, x)
DequeAppend(q, x) ==
  IF Len(q) < REF_WINDOW_PULSES + 1 THEN Append(q, x) ELSE Append(Tail(q), x)

\* _edge_cb
EdgeCb(level) ==
  IF level \notin {0, 1}
  THEN UNCHANGED <<count_total, z_ref_times>>
  ELSE /\ count_total' = count_total + 1
       /\ z_ref_times' = DequeAppend(z_ref_times, now)

\* intervals = [t2 - t1 for t1, t2 in zip(times[:-1], times[1:])]
Intervals(times) ==
  IF Len(times) < 2 THEN <<>> ELSE [i \in 1..(Len(times) - 1) |-> times[i + 1] - times[i]]

\* sorted(xs)[k - 1]: the k-th smallest element of a sequence
KthSmallest(xs, k) ==
  CHOOSE v \in {xs[i] : i \in 1..Len(xs)} :
    /\ Cardinality({i \in 1..Len(xs) : xs[i] < v}) < k
    /\ Cardinality({i \in 1..Len(xs) : xs[i] <= v}) >= k

\* statistics.median, doubled to stay in the integers: the middle element, or the
\* mean of the two middle elements
Median2(xs) ==
  LET n == Len(xs)
  IN IF n % 2 = 1
     THEN 2 * KthSmallest(xs, (n + 1) \div 2)
     ELSE KthSmallest(xs, n \div 2) + KthSmallest(xs, n \div 2 + 1)

\* x <= max_ok, where max_ok = med * 5 and med2 = 2 * med
OutlierKeepStrict(x, med2) == 2 * x < 5 * med2
OutlierKeep(x, med2) == 2 * x <= 5 * med2

RECURSIVE SumSeq(_)
SumSeq(xs) == IF xs = <<>> THEN 0 ELSE Head(xs) + SumSeq(Tail(xs))

Min(a, b) == IF a < b THEN a ELSE b

\* _ref_stats on the ring's contents: None, or N, the intervals used (use) and
\* their sum T_ref; r_ref is N / T_ref and mu is T_ref / N.
RefStats(times) ==
  IF Len(times) < REF_WINDOW_PULSES + 1
  THEN None
  ELSE LET all == Intervals(times)
           intervals == IF Len(all) >= 5
                        THEN LET med2 == Median2(all)
                             IN SelectSeq(all, LAMBDA x : OutlierKeep(x, med2))
                        ELSE all
           N == Min(REF_WINDOW_PULSES, Len(intervals))
           use == SubSeq(intervals, Len(intervals) - N + 1, Len(intervals))
           T_ref == SumSeq(use)
       IN IF N = 0 THEN None
          ELSE IF T_ref <= 0 THEN None
          ELSE Some([N |-> N, T_ref |-> T_ref, use |-> use])

(***************************************************************************)
(* Fractions. A float is a fraction num/den of integers with den >= 0; a   *)
(* zero denominator is a value that is not finite (inf, nan).              *)
(***************************************************************************)
Frac(n, d) == [num |-> n, den |-> d]
IsFinite(x) == x.den # 0
FracLess(x, y) == x.num * y.den < y.num * x.den

\* abs(z - 1.0)
AbsMinusOne(z) == Frac(IF z.num < z.den THEN z.den - z.num ELSE z.num - z.den, z.den)

\* The literals of _drift_level, in their order in the source: 2e-4, 1e-4, 5e-3
DriftFirst == Frac(2, 10000)
DriftSecond == Frac(1, 10000)
DriftThird == Frac(5, 1000)

\* _drift_level(z, warmup); z is None or Some(fraction)
DriftLevel(z, warmup) ==
  IF z = None \/ ~IsFinite(Val(z))
  THEN (IF ~warmup THEN "CRITICAL" ELSE "MED")
  ELSE LET d == AbsMinusOne(Val(z))
       IN IF FracLess(d, DriftFirst) THEN "LOW"
          ELSE IF FracLess(d, DriftSecond) THEN "MED"
          ELSE IF FracLess(d, DriftThird) THEN "HIGH"
          ELSE IF ~warmup THEN "CRITICAL" ELSE "MED"

\* _compute_window: (dt, dc)
ComputeWindow(at) == [dt |-> at - t0, dc |-> count_total - window_count0]

\* _compute_window: rate = (dc / dt) if dt > 0 else 0.0
Rate(dt, dc) == IF dt > 0 THEN Frac(dc, dt) ELSE Frac(0, 1)

\* _compute_z(window_sec, delta_count): dS / dR with dR = r_ref * window_sec and
\* r_ref = N / T_ref, so z = delta_count * T_ref / (N * window_sec); None without
\* statistics or when dR <= 0.
ComputeZ(window_sec, delta_count) ==
  LET stats == RefStats(z_ref_times)
  IN IF stats = None THEN None
     ELSE IF Val(stats).N * window_sec <= 0 THEN None
     ELSE Some(Frac(delta_count * Val(stats).T_ref, Val(stats).N * window_sec))

RECURSIVE SumSq(_)
SumSq(xs) == IF xs = <<>> THEN 0 ELSE Head(xs) * Head(xs) + SumSq(Tail(xs))

QUALITY_JITTER_TAU == Frac(5, 1000)

\* jitter_cv < QUALITY_JITTER_TAU, where jitter_cv = sigma / mu, mu = T_ref / N and
\* sigma^2 = sum((x - mu)^2) / N: the squares are compared,
\* (N * sum(x^2) - T_ref^2) / T_ref^2 < tau^2.
JitterBelowTau(st) ==
  LET n == Len(st.use)
      T == st.T_ref
      tau == QUALITY_JITTER_TAU
  IN (n * SumSq(st.use) - T * T) * tau.den * tau.den < tau.num * tau.num * T * T

\* _quality_and_lock
QualityAndLock ==
  LET stats == RefStats(z_ref_times)
      lock == cfg.cal_on \/ cfg.peer_lock
  IN IF stats = None
     THEN [quality |-> "WARMUP", lock_state |-> "WARMUP"]
     ELSE IF Val(stats).N < REF_WINDOW_PULSES
     THEN [quality |-> "WARMUP", lock_state |-> "WARMUP"]
     ELSE IF JitterBelowTau(Val(stats))
     THEN [quality |-> "OK", lock_state |-> IF lock THEN "LOCKED" ELSE "FREE"]
     ELSE [quality |-> "WARN", lock_state |-> IF lock THEN "HOLD" ELSE "FREE"]

\* Line 321: (self._ref_stats() is None) or (self._ref_stats()[0] < REF_WINDOW_PULSES)
WarmupFlag ==
  LET stats == RefStats(z_ref_times)
  IN stats = None \/ Val(stats).N < REF_WINDOW_PULSES

\* abs(dt - TIME_WINDOW_SEC) < 0.2 and dt >= TIME_WINDOW_SEC
Abs(x) == IF x < 0 THEN -x ELSE x
DueNoUpperBound(dt) == dt >= TIME_WINDOW_SEC
Due(dt) == Abs(dt - TIME_WINDOW_SEC) < DueTolerance /\ dt >= TIME_WINDOW_SEC

(***************************************************************************)
(* PulseCounter._apply_calibration                                         *)
(***************************************************************************)
OneSecond == 10           \* 1.0 s in clock units
Kp == 200000              \* CAL_KP
Ki == 20000               \* CAL_KI
PPM_LIMIT == 200          \* PPM_LIMIT

Max(a, b) == IF a > b THEN a ELSE b

RECURSIVE Gcd(_, _)
Gcd(a, b) == IF b = 0 THEN a ELSE Gcd(b, a % b)

\* The same value in lowest terms
Norm(x) ==
  LET g == Gcd(Abs(x.num), x.den)
  IN IF g = 0 THEN x ELSE Frac(x.num \div g, x.den \div g)

FracAdd(x, y) == Norm(Frac(x.num * y.den + y.num * x.den, x.den * y.den))
FracSub(x, y) == Norm(Frac(x.num * y.den - y.num * x.den, x.den * y.den))
FracMul(x, y) == Norm(Frac(x.num * y.num, x.den * y.den))
\* x / y for y > 0
FracDiv(x, y) == Norm(Frac(x.num * y.den, x.den * y.num))
FracMin(x, y) == IF FracLess(y, x) THEN y ELSE x
FracMax(x, y) == IF FracLess(x, y) THEN y ELSE x

\* ppm = max(-PPM_LIMIT, min(PPM_LIMIT, ppm))
PpmClampAbove(ppm) == FracMin(Frac(PPM_LIMIT, 1), ppm)
PpmClamp(ppm) == FracMax(Frac(-PPM_LIMIT, 1), FracMin(Frac(PPM_LIMIT, 1), ppm))

\* The rate of the best peer, on the wire in Hz, in pulses per clock unit
PeerRate(hz) == Norm(Frac(hz, OneSecond))

\* _apply_calibration(rate_hz, window_sec): the target it chose, the error, the
\* new integral term and the clamped ppm. The division of line 279 is by
\* max(1.0, TIME_WINDOW_SEC), both in seconds.
ApplyCalibration(rate_hz, window_sec) ==
  LET target == IF best_peer_rate # None /\ cfg.peer_lock
                THEN PeerRate(Val(best_peer_rate))
                ELSE rate_target
      e == IF target.num > 0
           THEN FracDiv(FracSub(target, rate_hz), target)
           ELSE Frac(0, 1)
      i == FracAdd(i_term, FracMul(e, Frac(window_sec, Max(OneSecond, TIME_WINDOW_SEC))))
      ppm == FracAdd(FracMul(Frac(Kp, 1), e), FracMul(Frac(Ki, 1), i))
  IN [target |-> target, e |-> e, i_term |-> i, ppm |-> PpmClamp(ppm),
      rate_target |-> rate_target]

(***************************************************************************)
(* PulseCounter.start, stop, status: the calling threads                   *)
(*                                                                         *)
(* A block under self._lock makes no blocking call and is one step; a call *)
(* begins with its first step.                                             *)
(***************************************************************************)
measVars == <<seq, count_total, window_count0, t0, last_window_sec, z_last_emit,
              z_ref_times, rows>>
envVars == <<now, cfg, mocks>>

\* start() with the stop signal cleared before the checks
StartClearsFirst(c) ==
  /\ callers[c].pc = "idle"
  /\ calls' = calls + 1
  /\ stop_evt' = FALSE
  /\ IF running \/ ~PidAcquire(pidfile)
     THEN /\ ret' = [op |-> "start", res |-> "False"]
          /\ UNCHANGED <<running, thread, pidfile, runs, loops, rows_at_stop>>
     ELSE /\ pidfile' = "self"
          /\ runs' = runs + 1
          /\ thread' = Some(runs + 1)
          /\ running' = TRUE
          /\ loops' = [loops EXCEPT ![runs + 1] =
                         [LoopNone EXCEPT !.pc = "setup", !.loc.count0 = count_total]]
          /\ rows_at_stop' = None
          /\ ret' = [op |-> "start", res |-> "True"]
  /\ UNCHANGED <<chip, cb, stops, callers, measVars, envVars, calVars, csvVars, peerVars>>

\* start()
Start(c) ==
  /\ callers[c].pc = "idle"
  /\ calls' = calls + 1
  /\ IF running
     THEN /\ ret' = [op |-> "start", res |-> "False"]
          /\ UNCHANGED <<running, stop_evt, thread, pidfile, runs, loops, rows_at_stop>>
     ELSE IF ~PidAcquire(pidfile)
     THEN /\ ret' = [op |-> "start", res |-> "False"]
          /\ UNCHANGED <<running, stop_evt, thread, pidfile, runs, loops, rows_at_stop>>
     ELSE /\ pidfile' = "self"
          /\ stop_evt' = FALSE
          /\ runs' = runs + 1
          /\ thread' = Some(runs + 1)
          /\ running' = TRUE
          /\ loops' = [loops EXCEPT ![runs + 1] =
                         [LoopNone EXCEPT !.pc = "setup", !.loc.count0 = count_total]]
          /\ rows_at_stop' = None
          /\ ret' = [op |-> "start", res |-> "True"]
  /\ UNCHANGED <<chip, cb, stops, callers, measVars, envVars, calVars, csvVars, peerVars>>

\* stop(), first block: if not self._running: return False; self._stop_evt.set()
StopCheck(c) ==
  /\ callers[c].pc = "idle"
  /\ calls' = calls + 1
  /\ IF ~running
     THEN /\ ret' = [op |-> "stop", res |-> "False"]
          /\ UNCHANGED <<stop_evt, callers>>
     ELSE /\ stop_evt' = TRUE
          /\ callers' = [callers EXCEPT ![c].pc = "stop_test", ![c].run = runs]
          /\ UNCHANGED ret
  /\ UNCHANGED <<running, thread, chip, cb, pidfile, runs, stops, rows_at_stop,
                 loops, measVars, envVars, calVars, csvVars, peerVars>>

\* if self._thread:
StopTest(c) ==
  /\ callers[c].pc = "stop_test"
  /\ callers' = [callers EXCEPT ![c].pc =
                   IF thread # None THEN "stop_joincall" ELSE "stop_teardown"]
  /\ UNCHANGED <<running, stop_evt, thread, chip, cb, pidfile, runs, stops,
                 rows_at_stop, loops, calls, ret, measVars, envVars, calVars, csvVars, peerVars>>

\* self._thread.join: the attribute is read again; on None the lookup of join
\* raises AttributeError and the call ends there.
StopJoinCall(c) ==
  /\ callers[c].pc = "stop_joincall"
  /\ IF thread = None
     THEN /\ callers' = [callers EXCEPT ![c] = CallerIdle]
          /\ ret' = [op |-> "stop", res |-> "AttributeError"]
     ELSE /\ callers' = [callers EXCEPT ![c].pc = "stop_join", ![c].h = Val(thread)]
          /\ UNCHANGED ret
  /\ UNCHANGED <<running, stop_evt, thread, chip, cb, pidfile, runs, stops,
                 rows_at_stop, loops, calls, measVars, envVars, calVars, csvVars, peerVars>>

\* join(timeout=5) returns when the thread has ended, or after 5 s with the
\* thread still alive: blocked in a call (stalled), or looping because the stop
\* signal has been cleared again.
Ended(t) == loops[t].pc \in {"done", "crashed"}
JoinReturnsNoTimeout(t) == Ended(t)
JoinReturns(t) == Ended(t) \/ loops[t].stalled \/ ~stop_evt

StopJoin(c) ==
  /\ callers[c].pc = "stop_join"
  /\ JoinReturns(callers[c].h)
  /\ callers' = [callers EXCEPT ![c].pc = "stop_teardown"]
  /\ UNCHANGED <<running, stop_evt, thread, chip, cb, pidfile, runs, stops,
                 rows_at_stop, loops, calls, ret, measVars, envVars, calVars, csvVars, peerVars>>

\* stop(), second block: mark not running, cancel the callback, free and close
\* the chip, release the guard; return True.
StopTeardown(c) ==
  /\ callers[c].pc = "stop_teardown"
  /\ running' = FALSE
  /\ thread' = None
  /\ cb' = None
  /\ chip' = None
  /\ pidfile' = PidRelease(pidfile)
  /\ stops' = [stops EXCEPT ![callers[c].run] = @ + 1]
  /\ rows_at_stop' = Some(Len(rows))
  /\ callers' = [callers EXCEPT ![c] = CallerIdle]
  /\ ret' = [op |-> "stop", res |-> "True"]
  /\ UNCHANGED <<stop_evt, runs, loops, calls, measVars, envVars, calVars, csvVars, peerVars>>

\* status(): a snapshot, taken without the lock; its lock_state comes from
\* _quality_and_lock, which calls _ref_stats (stats); its peer fields are the
\* attributes the loop assigned last.
Status(c) ==
  /\ callers[c].pc = "idle"
  /\ calls' = calls + 1
  /\ ret' = [op |-> "status", res |-> IF running THEN "running" ELSE "stopped",
             stats |-> RefStats(z_ref_times),
             peer_rate_hz |-> peer_rate_hz, peer_quality |-> peer_quality]
  /\ UNCHANGED <<running, stop_evt, thread, chip, cb, pidfile, runs, stops,
                 rows_at_stop, loops, callers, measVars, envVars, calVars, csvVars, peerVars>>

(***************************************************************************)
(* PulseCounter._run: the sampling loop thread                             *)
(***************************************************************************)
Alive(t) == loops[t].pc \notin {"none", "done", "crashed"}

\* A thread that has ended, normally or by an exception: its locals are gone.
LoopEnded(l, pc, err) ==
  [LoopNone EXCEPT !.pc = pc, !.err = err, !.start = l.start, !.loc.count0 = l.loc.count0]
CanStep(t) == Alive(t) /\ ~loops[t].stalled

thrVars == <<running, stop_evt, thread, pidfile, runs, stops, rows_at_stop,
             callers, calls, ret>>

\* The row handed to write_row; run, at, warmup and cal are kept for the
\* properties only: the thread, its clock reading, the warmup flag of the commit
\* and what the calibration step of the commit used.
Row(t, status, l, z, prate, pquality) ==
  [run |-> t, status |-> status, seq |-> seq + 1, count |-> count_total,
   delta_count |-> l.dc, window_sec |-> l.dt, at |-> l.now,
   z |-> z, drift_level |-> l.loc.drift, quality |-> l.loc.quality,
   lock_state |-> l.loc.lock_state, rate_target |-> rate_target,
   ppm_offset |-> ppm_offset, peer_rate_hz |-> prate, peer_quality |-> pquality,
   warmup |-> l.loc.warmup, cal |-> l.loc.cal]

\* The line of run.csv that write_row formats from a row, told apart by its seq,
\* status and delta_count columns.
CsvLine(row) == [seq |-> row.seq, status |-> row.status, delta_count |-> row.delta_count]

\* Lines 292-314: start the mock generator or configure lgpio, then set the window
\* origin. outcome: "ok", or the lgpio call that raises.
RunSetup(t, outcome) ==
  /\ loops[t].pc = "setup"
  /\ CanStep(t)
  /\ IF cfg.use_mock
     THEN /\ outcome = "ok"
          /\ mocks' = [mocks EXCEPT ![t] = "alive"]
          /\ UNCHANGED <<chip, cb>>
     ELSE /\ UNCHANGED mocks
          /\ CASE outcome = "ok" -> chip' = Some(t) /\ cb' = Some(t)
               [] outcome = "open_fails" -> UNCHANGED <<chip, cb>>
               [] outcome = "claim_fails" -> chip' = Some(t) /\ UNCHANGED cb
  /\ IF outcome = "ok"
     THEN /\ t0' = now
          /\ window_count0' = count_total
          /\ z_last_emit' = now
          /\ loops' = [loops EXCEPT ![t].pc = "wait", ![t].start = now]
     ELSE \* the exception ends the thread
          /\ loops' = [loops EXCEPT ![t] = LoopEnded(loops[t], "crashed", "hardware")]
          /\ UNCHANGED <<t0, window_count0, z_last_emit>>
  /\ UNCHANGED <<thrVars, seq, count_total, last_window_sec, z_ref_times, rows,
                 now, cfg, calVars, csvVars, peerVars>>

\* Lines 316-320: the wait times out with the stop signal clear; sample the
\* window; when it is due, its rate becomes self._last_rate_hz.
RunTick(t) ==
  /\ loops[t].pc = "wait"
  /\ CanStep(t)
  /\ ~stop_evt
  /\ LET w == ComputeWindow(now)
     IN /\ loops' = [loops EXCEPT ![t].now = now, ![t].dt = w.dt, ![t].dc = w.dc,
                                  ![t].pc = IF Due(w.dt) THEN "warmup" ELSE "telegram"]
        /\ last_rate_hz' = IF Due(w.dt) THEN Rate(w.dt, w.dc) ELSE last_rate_hz
  /\ UNCHANGED <<thrVars, chip, cb, measVars, envVars, i_term, ppm_offset, rate_target,
                 peer_rate_hz, peer_quality, last_z, csvVars, peerVars>>

\* Line 321: the warmup flag of the commit, from the ring as it is now.
RunWarmup(t) ==
  /\ loops[t].pc = "warmup"
  /\ CanStep(t)
  /\ loops' = [loops EXCEPT ![t].loc.warmup = WarmupFlag, ![t].pc = "classify"]
  /\ UNCHANGED <<thrVars, chip, cb, measVars, envVars, calVars, csvVars, peerVars>>

\* Lines 322-330: z of the window and quality from the ring as it is now; the
\* drift level from the local z, which only the telegram branch (line 357)
\* assigns: unbound, it raises UnboundLocalError and the thread ends. Then the
\* calibration step, which reads the target and the best peer.
RunClassify(t) ==
  /\ loops[t].pc = "classify"
  /\ CanStep(t)
  /\ last_z' = ComputeZ(loops[t].dt, loops[t].dc)
  /\ IF ~loops[t].zbound
     THEN /\ loops' = [loops EXCEPT ![t] = LoopEnded(loops[t], "crashed", "unbound_z")]
          /\ UNCHANGED <<i_term, ppm_offset>>
     ELSE LET ql == QualityAndLock
              cal == ApplyCalibration(Rate(loops[t].dt, loops[t].dc), loops[t].dt)
          IN /\ loops' = [loops EXCEPT
                  ![t].loc.quality = ql.quality,
                  ![t].loc.drift = DriftLevel(loops[t].loc.z, loops[t].loc.warmup),
                  ![t].loc.lock_state =
                     IF loops[t].loc.warmup THEN "WARMUP" ELSE ql.lock_state,
                  ![t].loc.cal = IF cfg.cal_on \/ cfg.peer_lock THEN Some(cal) ELSE None,
                  ![t].pc = "commit"]
             /\ IF cfg.cal_on \/ cfg.peer_lock
                THEN i_term' = cal.i_term /\ ppm_offset' = cal.ppm
                ELSE UNCHANGED <<i_term, ppm_offset>>
  /\ UNCHANGED <<thrVars, chip, cb, measVars, envVars, rate_target, peer_rate_hz,
                 peer_quality, last_rate_hz, csvVars, peerVars>>

\* Lines 331-351: the snapshot of the best peer, then the row.
RunCommit(t) ==
  /\ loops[t].pc = "commit"
  /\ CanStep(t)
  /\ peer_rate_hz' = best_peer_rate
  /\ peer_quality' = best_peer_quality
  /\ LET row == Row(t, "RUNNING", loops[t], last_z, best_peer_rate, best_peer_quality)
     IN /\ seq' = seq + 1
        /\ rows' = Append(rows, row)
        /\ csv_file' = CsvWriteRow(csv_file, csv_backups, CsvLine(row)).file
        /\ csv_backups' = CsvWriteRow(csv_file, csv_backups, CsvLine(row)).backups
  /\ loops' = [loops EXCEPT ![t].pc = "reset"]
  /\ UNCHANGED <<thrVars, chip, cb, count_total, window_count0, t0, last_window_sec,
                 z_last_emit, z_ref_times, envVars, i_term, ppm_offset, rate_target,
                 last_z, last_rate_hz, peerVars>>

\* The commit of lines 331-351 statement by statement, for the interleavings
\* with the peer listener, with status() and with another loop thread.
\* Line 332: self._peer_rate_hz = self.peer.best_peer_rate
RunPeerRate(t) ==
  /\ loops[t].pc = "commit"
  /\ CanStep(t)
  /\ peer_rate_hz' = best_peer_rate
  /\ loops' = [loops EXCEPT ![t].pc = "peer_quality"]
  /\ UNCHANGED <<thrVars, chip, cb, measVars, envVars, i_term, ppm_offset,
                 rate_target, peer_quality, last_z, last_rate_hz, csvVars, peerVars>>

\* Line 333: self._peer_quality = self.peer.best_peer_quality
RunPeerQuality(t) ==
  /\ loops[t].pc = "peer_quality"
  /\ CanStep(t)
  /\ peer_quality' = best_peer_quality
  /\ loops' = [loops EXCEPT ![t].pc = "seq"]
  /\ UNCHANGED <<thrVars, chip, cb, measVars, envVars, i_term, ppm_offset,
                 rate_target, peer_rate_hz, last_z, last_rate_hz, csvVars, peerVars>>

\* Line 335: self._seq += 1
RunSeq(t) ==
  /\ loops[t].pc = "seq"
  /\ CanStep(t)
  /\ seq' = seq + 1
  /\ loops' = [loops EXCEPT ![t].pc = "args"]
  /\ UNCHANGED <<thrVars, chip, cb, count_total, window_count0, t0, last_window_sec,
                 z_last_emit, z_ref_times, rows, envVars, calVars, csvVars, peerVars>>

\* Lines 337-350: the arguments of write_row, from the attributes as they are
\* now (seq=self._seq, count=self._count_total, peer_rate_hz=self._peer_rate_hz,
\* peer_quality=self._peer_quality, ...).
RunArgs(t) ==
  /\ loops[t].pc = "args"
  /\ CanStep(t)
  /\ LET row == [Row(t, "RUNNING", loops[t], last_z, peer_rate_hz, peer_quality)
                   EXCEPT !.seq = seq]
     IN loops' = [loops EXCEPT ![t].loc.row = Some(row), ![t].pc = "write"]
  /\ UNCHANGED <<thrVars, chip, cb, measVars, envVars, calVars, csvVars, peerVars>>

\* Line 336: write_row appends the row it was handed.
RunWrite(t) ==
  /\ loops[t].pc = "write"
  /\ CanStep(t)
  /\ LET row == Val(loops[t].loc.row)
     IN /\ rows' = Append(rows, row)
        /\ csv_file' = CsvWriteRow(csv_file, csv_backups, CsvLine(row)).file
        /\ csv_backups' = CsvWriteRow(csv_file, csv_backups, CsvLine(row)).backups
  /\ loops' = [loops EXCEPT ![t].loc.row = None, ![t].pc = "reset"]
  /\ UNCHANGED <<thrVars, chip, cb, seq, count_total, window_count0, t0,
                 last_window_sec, z_last_emit, z_ref_times, envVars, calVars, peerVars>>

\* write_row blocks for longer than the join timeout (line 336).
RunStallWrite(t) ==
  /\ CanStep(t)
  /\ loops[t].pc = "write"
  /\ loops' = [loops EXCEPT ![t].stalled = TRUE]
  /\ UNCHANGED <<thrVars, chip, cb, measVars, envVars, calVars, csvVars, peerVars>>

\* Lines 352-354: reset the window origin.
RunReset(t) ==
  /\ loops[t].pc = "reset"
  /\ CanStep(t)
  /\ t0' = loops[t].now
  /\ window_count0' = count_total
  /\ last_window_sec' = loops[t].dt
  /\ loops' = [loops EXCEPT ![t].pc = "telegram"]
  /\ UNCHANGED <<thrVars, chip, cb, seq, count_total, z_last_emit, z_ref_times,
                 rows, envVars, calVars, csvVars, peerVars>>

\* Lines 356-371: the telegram branch; it assigns the local z, computed over
\* max(1e-6, self._last_window_sec), which is last_window_sec: that is
\* TIME_WINDOW_SEC or the dt of a due window, never below TIME_WINDOW_SEC.
\* The iteration ends here: now, dt and dc are assigned again before they are
\* read, and are forgotten.
RunTelegram(t) ==
  /\ loops[t].pc = "telegram"
  /\ CanStep(t)
  /\ IF cfg.z_send /\ (loops[t].now - z_last_emit) >= Z_SEND_INTERVAL_SEC
     THEN /\ z_last_emit' = loops[t].now
          /\ loops' = [loops EXCEPT ![t].pc = "wait", ![t].zbound = TRUE,
                                    ![t].loc.z = ComputeZ(last_window_sec, loops[t].dc),
                                    ![t].now = 0, ![t].dt = 0, ![t].dc = 0]
     ELSE /\ UNCHANGED z_last_emit
          /\ loops' = [loops EXCEPT ![t].pc = "wait",
                                    ![t].now = 0, ![t].dt = 0, ![t].dc = 0]
  /\ UNCHANGED <<thrVars, chip, cb, seq, count_total, window_count0, t0,
                 last_window_sec, z_ref_times, rows, envVars, calVars, csvVars, peerVars>>

\* Line 316: the wait returns with the stop signal set; the loop is left.
RunExit(t) ==
  /\ loops[t].pc = "wait"
  /\ CanStep(t)
  /\ stop_evt
  /\ loops' = [loops EXCEPT ![t].pc = "final"]
  /\ UNCHANGED <<thrVars, chip, cb, measVars, envVars, calVars, csvVars, peerVars>>

\* Lines 373-396: the final row, from the window in progress.
RunFinal(t) ==
  /\ loops[t].pc = "final"
  /\ CanStep(t)
  /\ LET w == ComputeWindow(now)
         z == ComputeZ(w.dt, w.dc)
         ql == QualityAndLock
         l == [loops[t] EXCEPT !.now = now, !.dt = w.dt, !.dc = w.dc,
                               !.loc.quality = ql.quality,
                               !.loc.lock_state = ql.lock_state,
                               !.loc.warmup = (ql.quality = "WARMUP"),
                               !.loc.drift = DriftLevel(z, ql.quality = "WARMUP"),
                               !.loc.cal = None]
         row == Row(t, "STOPPED", l, z, peer_rate_hz, peer_quality)
     IN /\ seq' = seq + 1
        /\ rows' = Append(rows, row)
        /\ csv_file' = CsvWriteRow(csv_file, csv_backups, CsvLine(row)).file
        /\ csv_backups' = CsvWriteRow(csv_file, csv_backups, CsvLine(row)).backups
        /\ loops' = [loops EXCEPT ![t] = LoopEnded(l, "done", "none")]
  /\ UNCHANGED <<thrVars, chip, cb, count_total, window_count0, t0, last_window_sec,
                 z_last_emit, z_ref_times, envVars, calVars, peerVars>>

\* The thread blocks in a call to the outside (the GPIO chip in the setup, the CSV
\* file and the I2C bus in a commit, the CSV file in the final row) for longer
\* than the join timeout, and later comes back.
RunStall(t) ==
  /\ CanStep(t)
  /\ loops[t].pc \in {"setup", "commit", "final"}
  /\ loops' = [loops EXCEPT ![t].stalled = TRUE]
  /\ UNCHANGED <<thrVars, chip, cb, measVars, envVars, calVars, csvVars, peerVars>>

RunResume(t) ==
  /\ Alive(t)
  /\ loops[t].stalled
  /\ loops' = [loops EXCEPT ![t].stalled = FALSE]
  /\ UNCHANGED <<thrVars, chip, cb, measVars, envVars, calVars, csvVars, peerVars>>

(***************************************************************************)
(* The pulse sources and the environment                                   *)
(***************************************************************************)
\* _mock: while not self._stop_evt.is_set(): self._edge_cb(None, GPIO_PIN, 1, 0)
MockPulse(t) ==
  /\ mocks[t] = "alive"
  /\ ~stop_evt
  /\ EdgeCb(1)
  /\ UNCHANGED <<thrVars, chip, cb, loops, seq, window_count0, t0, last_window_sec,
                 z_last_emit, rows, envVars, calVars, csvVars, peerVars>>

MockExit(t) ==
  /\ mocks[t] = "alive"
  /\ stop_evt
  /\ mocks' = [mocks EXCEPT ![t] = "done"]
  /\ UNCHANGED <<thrVars, chip, cb, loops, measVars, now, cfg, calVars, csvVars, peerVars>>

\* lgpio calls the registered callback with level 0 or 1 for an edge, 2 for a
\* watchdog timeout.
HwPulse(level) ==
  /\ cb # None
  /\ EdgeCb(level)
  /\ UNCHANGED <<thrVars, chip, cb, loops, seq, window_count0, t0, last_window_sec,
                 z_last_emit, rows, envVars, calVars, csvVars, peerVars>>

\* time.monotonic() moves on by one unit.
Tick ==
  /\ now' = now + 1
  /\ UNCHANGED <<thrVars, chip, cb, loops, measVars, cfg, mocks, calVars, csvVars, peerVars>>

\* The other process named in logger.pid exits.
PidOtherExits ==
  /\ pidfile = "alive"
  /\ pidfile' = "stale"
  /\ UNCHANGED <<running, stop_evt, thread, chip, cb, runs, stops, rows_at_stop,
                 callers, calls, ret, loops, measVars, envVars, calVars, csvVars, peerVars>>

(***************************************************************************)
(* Specifications                                                          *)
(***************************************************************************)
EngInitFixed ==
  EngInit([use_mock |-> TRUE, z_send |-> TRUE, cal_on |-> FALSE, peer_lock |-> FALSE],
          "absent")

Init ==
  /\ PeerInit
  /\ \E c \in Configs, f \in {"absent", "alive"} : EngInit(c, f)

\* ---- the peer listener alone
InitPeer == PeerInit /\ EngInitFixed

PeerStep == (PeerLoop \/ PeerClockTick) /\ UNCHANGED engVars

NextPeer == PeerStep

SpecPeer == InitPeer /\ [][NextPeer]_vars

\* ---- the lifecycle of the engine: concurrent start(), stop(), status() calls,
\* the loop threads, the guard; no pulses arrive.
CallStep(c) ==
  \/ /\ calls < MaxCalls
     /\ \/ (runs < MaxRuns \/ running \/ ~PidAcquire(pidfile)) /\ Start(c)
        \/ StopCheck(c)
        \/ Status(c)
  \/ StopTest(c)
  \/ StopJoinCall(c)
  \/ StopJoin(c)
  \/ StopTeardown(c)

LoopStep(t) ==
  \/ \E o \in {"ok", "open_fails", "claim_fails"} : RunSetup(t, o)
  \/ RunTick(t)
  \/ RunWarmup(t)
  \/ RunClassify(t)
  \/ RunCommit(t)
  \/ RunReset(t)
  \/ RunTelegram(t)
  \/ RunExit(t)
  \/ RunFinal(t)

LifeEnvStep ==
  \/ now < MaxLifeTime /\ Tick
  \/ PidOtherExits
  \/ \E t \in Tids : RunStall(t)
  \/ \E t \in Tids : RunResume(t)

NextEngine ==
  \/ \E c \in Callers : CallStep(c)
  \/ \E t \in Tids : LoopStep(t)
  \/ LifeEnvStep

SpecEngine == Init /\ [][NextEngine]_vars

\* The threads are scheduled: a call inside stop() takes its next step, a loop
\* thread that is not blocked takes its next step, and a join that can return
\* again and again does return (its timeout is a bound in real time).
FairEngine ==
  /\ \A c \in Callers :
       /\ WF_vars(StopTest(c) \/ StopJoinCall(c) \/ StopTeardown(c))
       /\ SF_vars(StopJoin(c))
  /\ \A t \in Tids : WF_vars(LoopStep(t))

SpecEngineFair == SpecEngine /\ FairEngine

\* ---- the windows of one caller's runs: pulses arrive from the mock generator or
\* from lgpio, the clock moves, the loop samples and commits.
InitWindow ==
  /\ PeerInit
  /\ \E m \in BOOLEAN :
       EngInit([use_mock |-> m, z_send |-> TRUE, cal_on |-> FALSE, peer_lock |-> FALSE],
               "absent")

WinCallStep(c) ==
  \/ /\ calls < MaxWinCalls
     /\ \/ runs < MaxRuns /\ Start(c)
        \/ StopCheck(c)
  \/ StopTest(c)
  \/ StopJoinCall(c)
  \/ StopJoin(c)
  \/ StopTeardown(c)

WinEnvStep ==
  \/ now < MaxWinTime /\ Tick
  \/ count_total < MaxWinPulses /\ \E t \in Tids : MockPulse(t)
  \/ count_total < MaxWinPulses /\ \E level \in {0, 1, 2} : HwPulse(level)
  \/ \E t \in Tids : MockExit(t)

NextWindow ==
  \/ WinCallStep("c1")
  \/ \E t \in Tids : LoopStep(t)
  \/ WinEnvStep

SpecWindow == InitWindow /\ [][NextWindow]_vars

\* ---- the reference ring: the mock generator pushes edge timestamps while the
\* clock moves, until a status() call reads the statistics. The clock is followed
\* from the start of the generator. The sampling loop does not touch the ring;
\* after its setup it is left out.
InitRing == PeerInit /\ EngInitFixed

RingCallStep(c) ==
  \/ ~running /\ runs < MaxRuns /\ Start(c)
  \/ ret.op # "status" /\ Status(c)

RingEnvStep ==
  /\ ret.op # "status"
  /\ \/ now < MaxRingTime /\ (\E t \in Tids : mocks[t] = "alive") /\ Tick
     \/ count_total < MaxRingPulses /\ \E t \in Tids : MockPulse(t)

NextRing ==
  \/ RingCallStep("c1")
  \/ \E t \in Tids : RunSetup(t, "ok")
  \/ RingEnvStep

SpecRing == InitRing /\ [][NextRing]_vars

\* ---- a steady source: the mock generator with MOCK_HZ at the target rate and
\* MOCK_JITTER = 0 pushes exactly one edge at every reading of the clock, the
\* first when it starts. The loop samples the clock after the edge of that
\* reading; its other steps interleave freely with the edges.
PulseDone == z_ref_times # <<>> /\ z_ref_times[Len(z_ref_times)] = now

InitSteady == PeerInit /\ EngInitFixed

SteadyCallStep(c) == ~running /\ runs < MaxRuns /\ Start(c)

SteadyLoopStep(t) ==
  \/ RunSetup(t, "ok")
  \/ PulseDone /\ RunTick(t)
  \/ RunWarmup(t)
  \/ RunClassify(t)
  \/ RunCommit(t)
  \/ RunReset(t)
  \/ RunTelegram(t)

SteadyEnvStep ==
  \/ now < MaxSteadyTime /\ PulseDone /\ Tick
  \/ ~PulseDone /\ \E t \in Tids : MockPulse(t)

NextSteady ==
  \/ SteadyCallStep("c1")
  \/ \E t \in Tids : SteadyLoopStep(t)
  \/ SteadyEnvStep

SpecSteady == InitSteady /\ [][NextSteady]_vars

\* ---- the steady source with a prompt loop: a commit, from the sample of a due
\* window to the reset of the origin, ends within the clock reading it began in,
\* so no edge arrives inside a commit.
InCommit(t) == loops[t].pc \in {"warmup", "classify", "commit", "reset"}

PromptEnvStep ==
  \/ /\ now < MaxPromptTime
     /\ PulseDone
     /\ \A t \in Tids : ~InCommit(t)
     /\ Tick
  \/ ~PulseDone /\ \E t \in Tids : MockPulse(t)

NextPrompt ==
  \/ SteadyCallStep("c1")
  \/ \E t \in Tids : SteadyLoopStep(t)
  \/ PromptEnvStep

SpecPrompt == InitSteady /\ [][NextPrompt]_vars

\* ---- _apply_calibration alone: called with any rate and window, calibration
\* switched on, no peer; set_target changes the target between the calls.
CalTargets == {0, 1, 2}   \* rate_hz of /api/set_target, in pulses per clock unit

\* POST /api/set_target (app/main.py)
SetTarget(v) ==
  /\ rate_target' = Frac(v, 1)
  /\ UNCHANGED <<thrVars, chip, cb, loops, measVars, envVars, i_term, ppm_offset,
                 peer_rate_hz, peer_quality, last_z, last_rate_hz, csvVars, peerVars>>

CalCall(dt, dc) ==
  /\ calls' = calls + 1
  /\ LET cal == ApplyCalibration(Rate(dt, dc), dt)
     IN /\ i_term' = cal.i_term
        /\ ppm_offset' = cal.ppm
        /\ ret' = [op |-> "_apply_calibration", e |-> cal.e, target |-> cal.target,
                   ppm |-> cal.ppm]
  /\ UNCHANGED <<running, stop_evt, thread, chip, cb, pidfile, runs, stops,
                 rows_at_stop, loops, callers, measVars, envVars, rate_target,
                 peer_rate_hz, peer_quality, last_z, last_rate_hz, csvVars, peerVars>>

InitCalib ==
  /\ PeerInit
  /\ EngInit([use_mock |-> TRUE, z_send |-> TRUE, cal_on |-> TRUE, peer_lock |-> FALSE],
             "absent")

NextCalib ==
  \/ /\ calls < MaxCalSteps
     /\ \E dt \in 1..MaxCalWindow, dc \in 0..MaxCalCount : CalCall(dt, dc)
  \/ \E v \in CalTargets : SetTarget(v)

SpecCalib == InitCalib /\ [][NextCalib]_vars

\* ---- calibration inside the loop: calibration or peer-lock is switched on, the
\* peer listener receives telegrams of one peer whose jitter improves, and
\* set_target is called once, while the loop samples and commits.
LockPayloads ==
  {p \in Payloads : IsCandidate(p) /\ Val(p.rate) + Val(p.jitter) = 11}

InitLock ==
  /\ PeerInit
  /\ \E c \in BOOLEAN, p \in BOOLEAN :
       /\ c \/ p
       /\ EngInit([use_mock |-> TRUE, z_send |-> TRUE, cal_on |-> c, peer_lock |-> p],
                  "absent")

LockEnvStep ==
  \/ now < MaxLockTime /\ Tick
  \/ count_total < MaxLockPulses /\ \E t \in Tids : MockPulse(t)
  \/ /\ rate_target = Frac(RATE_TARGET, 1)
     /\ \E v \in CalTargets \ {RATE_TARGET} : SetTarget(v)
  \/ /\ \E p \in LockPayloads : PeerRecv(p, "10.0.0.1")
     /\ UNCHANGED engVars

NextLock ==
  \/ SteadyCallStep("c1")
  \/ \E t \in Tids :
       \/ RunSetup(t, "ok")
       \/ RunTick(t)
       \/ RunWarmup(t)
       \/ RunClassify(t)
       \/ RunCommit(t)
       \/ RunReset(t)
       \/ RunTelegram(t)
  \/ LockEnvStep

SpecLock == InitLock /\ [][NextLock]_vars

\* ---- the CSV writer alone: write_row called with any rows.
CsvRowArgs == [seq : {seq + 1}, status : {"RUNNING", "STOPPED"}, delta_count : {0, 1}]

CsvWriteCall(line) ==
  /\ seq' = seq + 1
  /\ rows' = Append(rows, line)
  /\ csv_file' = CsvWriteRow(csv_file, csv_backups, line).file
  /\ csv_backups' = CsvWriteRow(csv_file, csv_backups, line).backups
  /\ UNCHANGED <<running, stop_evt, thread, chip, cb, pidfile, runs, stops,
                 rows_at_stop, loops, callers, calls, ret, count_total, window_count0,
                 t0, last_window_sec, z_last_emit, z_ref_times, envVars, calVars,
                 peerVars>>

InitCsv == PeerInit /\ EngInitFixed

NextCsv == seq < MaxCsvRows /\ \E line \in CsvRowArgs : CsvWriteCall(line)

SpecCsv == InitCsv /\ [][NextCsv]_vars

\* ---- _drift_level, a static method: called with any z and warmup flag.
DriftArgs ==
  {None, Some(Frac(1, 0)), Some(Frac(0, 0))}
  \cup {Some(Frac(DriftUnit + k, DriftUnit)) : k \in (0 - MaxDriftSteps)..MaxDriftSteps}

DriftCall(z, warmup) ==
  /\ ret' = [op |-> "_drift_level", z |-> z, warmup |-> warmup,
             res |-> DriftLevel(z, warmup)]
  /\ UNCHANGED <<running, stop_evt, thread, chip, cb, pidfile, runs, stops,
                 rows_at_stop, loops, callers, calls, measVars, envVars, calVars, csvVars, peerVars>>

InitDrift == PeerInit /\ EngInitFixed

NextDrift == \E z \in DriftArgs, warmup \in BOOLEAN : DriftCall(z, warmup)

SpecDrift == InitDrift /\ [][NextDrift]_vars

(***************************************************************************)
(* Properties of the CSV writer                                            *)
(***************************************************************************)
CsvExisting(b) == {i \in 1..CsvBackupCount : b[i] # None}

\* C15: a write that finds the active file at or beyond max_bytes makes exactly
\* one new backup, number 1, holding the previous contents of the active file,
\* shifts the existing backups up by one and drops the oldest (never more than
\* backup_count backups), and leaves the active file as the header and the new
\* row; a write that finds the file below the threshold creates no backup and
\* appends the row after the existing rows.
C15_RotationMakesOneBackup ==
  [][ rows' # rows =>
        LET line == rows'[Len(rows')]
        IN IF Len(csv_file) >= CsvMaxBytes
           THEN /\ csv_backups'[1] = Some(csv_file)
                /\ \A i \in 1..(CsvBackupCount - 1) : csv_backups'[i + 1] = csv_backups[i]
                /\ Cardinality(CsvExisting(csv_backups')) <= CsvBackupCount
                /\ Cardinality(CsvExisting(csv_backups')) =
                     Min(Cardinality(CsvExisting(csv_backups)) + 1, CsvBackupCount)
                /\ csv_file' = <<CsvHeader, line>>
           ELSE /\ csv_backups' = csv_backups
                /\ csv_file' = Append(csv_file, line)
                /\ csv_file'[1] = CsvHeader ]_vars

\* C15 witness: every backup exists, the oldest one has been dropped (the first
\* row ever written is in no file any more), and the active file has just been
\* rotated: it holds the header and one row.
C15_Witness ==
  /\ CsvExisting(csv_backups) = 1..CsvBackupCount
  /\ Len(csv_file) = 2
  /\ csv_file[1] = CsvHeader
  /\ \A i \in 1..CsvBackupCount :
       /\ Len(Val(csv_backups[i])) = CsvMaxBytes
       /\ \A k \in 1..Len(Val(csv_backups[i])) : Val(csv_backups[i])[k] # rows[1]
  /\ Val(csv_backups[1])[CsvMaxBytes] = rows[Len(rows) - 1]

(***************************************************************************)
(* Properties of _drift_level                                              *)
(***************************************************************************)
Tiers == {"LOW", "MED", "HIGH", "CRITICAL"}

\* The tier of d = |z - 1| under the thresholds 2e-4 < 1e-3 < 5e-3.
TierOf(d) ==
  IF FracLess(d, Frac(2, 10000)) THEN "LOW"
  ELSE IF FracLess(d, Frac(1, 1000)) THEN "MED"
  ELSE IF FracLess(d, Frac(5, 1000)) THEN "HIGH"
  ELSE "CRITICAL"

\* C11: for every finite z outside warmup, drift_level returns the one tier of
\* d = |z - 1| under the increasing thresholds LOW < 2e-4 <= MED < 1e-3 <= HIGH <
\* 5e-3 <= CRITICAL, and each of the four tiers is returned for some z.
C11_DriftTiersIncreasing ==
  /\ (ret.op = "_drift_level" /\ ~ret.warmup /\ ret.z # None /\ IsFinite(Val(ret.z))) =>
       ret.res = TierOf(AbsMinusOne(Val(ret.z)))
  /\ ret.op = "_drift_level" =>
       \A tier \in Tiers :
         \E z \in DriftArgs : z # None /\ IsFinite(Val(z)) /\ DriftLevel(z, FALSE) = tier

\* C19: while warming up drift_level is clamped to at most MED: for every z,
\* finite or not, drift_level(z, TRUE) is LOW or MED.
C19_WarmupClampsToMed ==
  (ret.op = "_drift_level" /\ ret.warmup) => ret.res \in {"LOW", "MED"}

(***************************************************************************)
(* Properties of the engine's lifecycle                                    *)
(***************************************************************************)
\* The state of the engine that a refused call must leave alone: everything but
\* the record of the calls.
EngineState == <<running, stop_evt, thread, chip, cb, pidfile, runs, loops, mocks,
                 callers, stops, rows_at_stop, measVars, now, cfg, calVars, csvVars>>

StartReturns == calls' = calls + 1 /\ ret'.op = "start" /\ callers' = callers

\* C3: start() returns False, starts no loop thread, does not clear the stop
\* signal and changes nothing whenever the engine is running or the guard's
\* acquire() returns False; otherwise it returns True with the engine running and
\* a new loop thread launched.
C3_StartRefusedOrRunning ==
  [][ StartReturns =>
        IF running \/ ~PidAcquire(pidfile)
        THEN ret'.res = "False" /\ UNCHANGED EngineState
        ELSE /\ ret'.res = "True"
             /\ running'
             /\ runs' = runs + 1
             /\ thread' = Some(runs')
             /\ loops'[runs'].pc = "setup" ]_vars

\* C3 witness: a start() has been refused on a running engine whose stop signal is
\* set (a stop() is in progress), after the start() that made it run.
C3_Witness ==
  /\ ret = [op |-> "start", res |-> "False"]
  /\ running
  /\ stop_evt
  /\ \E c \in Callers : callers[c].pc # "idle"
  /\ \E t \in Tids : Alive(t)

\* A loop thread exists only because a start() returned True.
StartReportedSuccess(t) == loops[t].pc # "none"

\* C4: when configuring the hardware has failed, start() has not reported success
\* and the engine is stopped: not running, guard not held.
C4_HardwareFailureLeavesStopped ==
  \A t \in Tids :
    (loops[t].err = "hardware" /\ thread = Some(t)) =>
      (~StartReportedSuccess(t) /\ ~running /\ pidfile # "self")

RunRows(r) == SelectSeq(rows, LAMBDA x : x.run = r)
StoppedRows(r) == SelectSeq(rows, LAMBDA x : x.run = r /\ x.status = "STOPPED")

\* C5: once a stop() has returned True for a run, the run has exactly one STOPPED
\* row, it is the run's last row, its window reaches from the previous row of the
\* run (or the start of the run) to the moment it was taken, and no row is
\* appended between that return and the next start().
C5_StopEmitsOneFinalRow ==
  /\ \A r \in Tids :
       stops[r] >= 1 =>
         LET rr == RunRows(r)
             n == Len(rr)
         IN /\ Len(StoppedRows(r)) = 1
            /\ rr[n].status = "STOPPED"
            /\ rr[n].window_sec =
                 rr[n].at - (IF n > 1 THEN rr[n - 1].at ELSE loops[r].start)
  /\ rows_at_stop # None => Len(rows) = Val(rows_at_stop)

\* C6: for any number of stop() calls against one running engine the teardown
\* happens once: one call returns True (so the guard is released once), one
\* STOPPED row is emitted, and no call fails on the cleared thread handle.
C6_StopTearsDownOnce ==
  /\ \A r \in Tids : stops[r] <= 1
  /\ \A r \in Tids : Len(StoppedRows(r)) <= 1
  /\ ret.res # "AttributeError"

\* C7: every call that has begun comes to its end, also when the loop thread never
\* exits (the calls are finitely many, so from some moment on no caller is inside
\* a call any more); and a stop() that goes past its join, timed out or not,
\* leaves the engine not running, the hardware handle released and the guard
\* released.
C7_CallsEndAndTeardownCompletes ==
  /\ <>[](\A c \in Callers : callers[c].pc = "idle")
  /\ [][ \A c \in Callers :
           (callers[c].pc = "stop_teardown" /\ callers'[c].pc = "idle") =>
             (ret'.res = "True" /\ ~running' /\ thread' = None /\ chip' = None
              /\ cb' = None /\ pidfile' # "self") ]_vars

\* C7 witness: a stop() has returned True after its join timed out on a loop
\* thread that is still blocked, with the chip that thread had opened released.
C7_Witness ==
  /\ ret = [op |-> "stop", res |-> "True"]
  /\ ~running
  /\ chip = None
  /\ pidfile = "absent"
  /\ \E t \in Tids : Alive(t) /\ loops[t].stalled /\ loops[t].pc # "setup"
  /\ ~cfg.use_mock


(***************************************************************************)
(* Properties of the reference ring and the window                         *)
(***************************************************************************)
RingFull == Len(z_ref_times) = REF_WINDOW_PULSES + 1

\* The indices of the intervals that are not greater than 5 times the median.
KeptIndices(iv) == {i \in 1..Len(iv) : 2 * iv[i] <= 5 * Median2(iv)}

RECURSIVE SumOver(_, _)
SumOver(iv, I) ==
  IF I = {} THEN 0 ELSE LET i == CHOOSE k \in I : TRUE IN iv[i] + SumOver(iv, I \ {i})

\* The ring never holds more than REF_WINDOW_PULSES + 1 timestamps, all pushes
\* counted it holds as many as were pushed up to that number, and a push puts the
\* new timestamp last, keeps the others in their order and evicts only the oldest.
RingHoldsMostRecent ==
  /\ [](/\ Len(z_ref_times) <= REF_WINDOW_PULSES + 1
        /\ Len(z_ref_times) = Min(count_total, REF_WINDOW_PULSES + 1)
        /\ \A i \in 1..(Len(z_ref_times) - 1) : z_ref_times[i] <= z_ref_times[i + 1])
  /\ [][ count_total' # count_total =>
          /\ count_total' = count_total + 1
          /\ z_ref_times'[Len(z_ref_times')] = now
          /\ LET n == Len(z_ref_times)
                 old == IF n = REF_WINDOW_PULSES + 1 THEN Tail(z_ref_times)
                                                     ELSE z_ref_times
             IN SubSeq(z_ref_times', 1, Len(z_ref_times') - 1) = old ]_vars

\* C8 as stated: the statistics are None while fewer than REF_WINDOW_PULSES + 1
\* timestamps have been pushed and Some after every push from then on; the ring
\* holds at most REF_WINDOW_PULSES + 1 timestamps, the most recent ones in order.
C8_StatsSomeOnceFull ==
  /\ [](count_total < REF_WINDOW_PULSES + 1 => RefStats(z_ref_times) = None)
  /\ [](count_total >= REF_WINDOW_PULSES + 1 => RefStats(z_ref_times) # None)
  /\ RingHoldsMostRecent

\* C8 amended: the statistics are None while fewer than REF_WINDOW_PULSES + 1
\* timestamps have been pushed; after every push from then on they are Some
\* exactly when the intervals kept by the outlier filter sum to more than zero
\* (None when they sum to zero: timestamps that do not differ); the ring holds at
\* most REF_WINDOW_PULSES + 1 timestamps, the most recent ones in arrival order.
C8_StatsSomeOnceFullUnlessZeroSpan ==
  /\ [](count_total < REF_WINDOW_PULSES + 1 => RefStats(z_ref_times) = None)
  /\ [](count_total >= REF_WINDOW_PULSES + 1 =>
          LET iv == Intervals(z_ref_times)
              span == IF Len(iv) >= 5 THEN SumOver(iv, KeptIndices(iv))
                                      ELSE SumOver(iv, 1..Len(iv))
          IN (RefStats(z_ref_times) # None) <=> (span > 0))
  /\ RingHoldsMostRecent

\* C8 witness: status() has read statistics that are Some from a full ring that
\* has evicted its oldest timestamp, with time passing between the pushes.
C8_Witness ==
  /\ count_total > REF_WINDOW_PULSES + 1
  /\ RingFull
  /\ z_ref_times[1] > 0
  /\ ret.op = "status"
  /\ ret.stats # None
  /\ ret.stats = RefStats(z_ref_times)

\* C9: when the full ring yields at least 5 intervals, the statistics use exactly
\* the intervals not greater than 5 times the median: N is their number (at most
\* REF_WINDOW_PULSES), T_ref their sum, the used intervals are they in their
\* order, and the result is None if none is kept. Intervals 1,1,1,1,10 give N = 4.
C9_OutliersAboveFiveMediansDropped ==
  /\ (RingFull /\ Len(Intervals(z_ref_times)) >= 5) =>
       LET iv == Intervals(z_ref_times)
           K == KeptIndices(iv)
           st == RefStats(z_ref_times)
       IN /\ K = {} => st = None
          /\ st # None =>
               /\ Val(st).N = Cardinality(K)
               /\ Val(st).N <= REF_WINDOW_PULSES
               /\ Val(st).T_ref = SumOver(iv, K)
               /\ Val(st).use = SelectSeq(iv, LAMBDA x : \E i \in K : iv[i] = x)
               /\ \A i \in 1..Len(iv) : 2 * iv[i] > 5 * Median2(iv) => i \notin K
  /\ REF_WINDOW_PULSES = 5 =>
       /\ RefStats(<<0, 1, 2, 3, 4, 14>>) # None
       /\ Val(RefStats(<<0, 1, 2, 3, 4, 14>>)).N = 4
       /\ Val(RefStats(<<0, 1, 2, 3, 4, 14>>)).use = <<1, 1, 1, 1>>

\* C9 witness: status() has read the statistics of a full ring with five or more
\* intervals, one of which is above 5 times the median and is dropped.
C9_Witness ==
  /\ RingFull
  /\ ret.op = "status"
  /\ ret.stats = RefStats(z_ref_times)
  /\ ret.stats # None
  /\ LET iv == Intervals(z_ref_times)
     IN /\ Len(iv) >= 5
        /\ Median2(iv) > 0
        /\ \E i \in 1..Len(iv) : 2 * iv[i] > 5 * Median2(iv)
        /\ Val(ret.stats).N = Len(iv) - 1

\* C10: every RUNNING row has TIME_WINDOW_SEC <= window_sec < TIME_WINDOW_SEC +
\* 0.2; a RUNNING row is appended only for a sample of the window that was due;
\* and the reset that follows the commit sets the window origin to the time of
\* that sample and the current total count, so that dt restarts from 0.
C10_RunningRowsOnlyWhenDue ==
  /\ [](\A i \in 1..Len(rows) :
          rows[i].status = "RUNNING" =>
            /\ rows[i].window_sec >= TIME_WINDOW_SEC
            /\ rows[i].window_sec < TIME_WINDOW_SEC + DueTolerance)
  /\ [][ \A t \in Tids :
          /\ (Len(rows') > Len(rows) /\ rows'[Len(rows')].status = "RUNNING"
              /\ rows'[Len(rows')].run = t) =>
               /\ loops[t].dt >= TIME_WINDOW_SEC
               /\ Abs(loops[t].dt - TIME_WINDOW_SEC) < DueTolerance
               /\ rows'[Len(rows')].window_sec = loops[t].dt
               /\ loops'[t].pc = "reset"
          /\ (loops[t].pc = "reset" /\ loops'[t].pc # "reset") =>
               /\ t0' = loops[t].now
               /\ window_count0' = count_total'
               /\ loops[t].now - t0' = 0
               /\ count_total' - window_count0' = 0 ]_vars

\* C10 witness: two RUNNING rows of one run, the first for a window at the upper
\* edge of the tolerance, the second for the window that began at the first's
\* reset, with pulses counted.
C10_Witness ==
  /\ Len(rows) >= 2
  /\ rows[1].status = "RUNNING"
  /\ rows[2].status = "RUNNING"
  /\ rows[1].window_sec = TIME_WINDOW_SEC + DueTolerance - 1
  /\ rows[2].at - rows[1].at = rows[2].window_sec
  /\ rows[2].count > 0

(***************************************************************************)
(* Properties of the peer listener                                         *)
(***************************************************************************)

\* The arrival index of the earliest candidate that achieves the minimum jitter.
EarliestMinJitter(h) ==
  CHOOSE i \in 1..Len(h) :
    /\ \A k \in 1..Len(h) : h[i].jitter <= h[k].jitter
    /\ \A k \in 1..(i - 1) : h[k].jitter > h[i].jitter

\* C1: best is unset while no complete telegram with quality OK and a jitter has
\* been received; otherwise best is the (rate, quality, jitter, address) of the
\* earliest-received such telegram that achieves the minimum jitter. The history
\* of candidates is untouched by telegrams of another quality and by expiry, so
\* neither changes best.
C1_BestIsEarliestMinJitter ==
  IF peer_candidates = <<>>
  THEN BestPeer = <<None, None, None, None>>
  ELSE LET e == peer_candidates[EarliestMinJitter(peer_candidates)]
       IN BestPeer = <<Some(e.rate), Some("OK"), Some(e.jitter), Some(e.ip)>>

\* C1 witness: a later candidate with a jitter that is not lower (and another rate
\* and address) has been received and the first is still best, after a telegram of
\* quality WARN and an expiry pass.
C1_Witness ==
  /\ Len(peer_candidates) >= 2
  /\ peer_candidates[2].jitter >= peer_candidates[1].jitter
  /\ peer_candidates[2].rate # peer_candidates[1].rate
  /\ peer_candidates[2].ip # peer_candidates[1].ip
  /\ best_peer_ip = Some(peer_candidates[1].ip)
  /\ best_peer_rate = Some(peer_candidates[1].rate)
  /\ peer_last.kind = "timeout"
  /\ \E a \in Addrs : last_seen[a] = None

\* A payload the listener has to discard: malformed, or an object without rate_hz
\* or without quality.
IsDiscardable(p) ==
  \/ p.kind \in {"undecodable", "badjson", "nonobject"}
  \/ p.kind = "object" /\ (p.rate = None \/ p.quality = None)

\* C2: a malformed or incomplete payload leaves best unchanged and the listener
\* running.
C2_DiscardKeepsListening ==
  IsDiscardable(peer_last) => (BestPeer = peer_best_before /\ peer_thread = "running")

(***************************************************************************)
(* Properties of the window commit                                         *)
(***************************************************************************)
LastRow(r) == r[Len(r)]

\* C16: a due window always commits. A thread that has found its window due and
\* has read the warmup flag goes on to write the row, whatever the configuration;
\* the step that writes appends exactly one RUNNING row of this thread and leaves
\* the thread alive at the reset of the window; without reference statistics the
\* row has no z and quality WARMUP.
C16_DueWindowCommits ==
  [][\A t \in Tids :
       /\ (loops[t].pc = "classify" /\ loops'[t].pc # "classify")
            => loops'[t].pc = "commit"
       /\ (loops[t].pc = "commit" /\ loops'[t].pc # "commit")
            => /\ loops'[t].pc = "reset"
               /\ Len(rows') = Len(rows) + 1
               /\ LastRow(rows').status = "RUNNING"
               /\ LastRow(rows').run = t
               /\ RefStats(z_ref_times) = None
                    => LastRow(rows').z = None /\ LastRow(rows').quality = "WARMUP"
    ]_vars

\* The total count at the start of the window of row i: the count of the previous
\* row of the same run, or the count when start() made the run.
WindowBase(i) ==
  LET prev == {j \in 1..(i - 1) : rows[j].run = rows[i].run}
  IN IF prev = {}
     THEN loops[rows[i].run].loc.count0
     ELSE rows[CHOOSE j \in prev : \A k \in prev : k <= j].count

\* C17: for every interleaving of pulses with the sampling loop, the delta_count
\* of each row is its count minus the total count at the start of its window, so
\* that the delta_counts of a run add up to the growth of the counter.
C17_DeltaCountsPartitionPulses ==
  \A i \in 1..Len(rows) : rows[i].delta_count = rows[i].count - WindowBase(i)

\* The pairs (quality, lock_state) that _quality_and_lock returns for some ring
PairsOfMapping ==
  LET lock == cfg.cal_on \/ cfg.peer_lock
  IN {<<"WARMUP", "WARMUP">>,
      <<"OK", IF lock THEN "LOCKED" ELSE "FREE">>,
      <<"WARN", IF lock THEN "HOLD" ELSE "FREE">>}

\* C12: every row carries a (quality, lock_state) pair of the quality_and_lock
\* mapping: (WARMUP, WARMUP), (OK, LOCKED or FREE) or (WARN, HOLD or FREE), with
\* LOCKED and HOLD when calibration or peer-lock is enabled; so lock_state is
\* WARMUP exactly when quality is, for every interleaving of pulses with the
\* commit.
C12_QualityLockPairOfMapping ==
  \A i \in 1..Len(rows) :
    /\ <<rows[i].quality, rows[i].lock_state>> \in PairsOfMapping
    /\ rows[i].lock_state = "WARMUP" <=> rows[i].quality = "WARMUP"

\* C14: with the source at exactly the target rate and no jitter, every window
\* committed with quality OK has a z with |z - 1| < 2e-4 and drift_level LOW.
C14_SteadyOkRowsAreLow ==
  \A i \in 1..Len(rows) :
    (rows[i].status = "RUNNING" /\ rows[i].quality = "OK")
      => /\ rows[i].z # None
         /\ IsFinite(Val(rows[i].z))
         /\ FracLess(AbsMinusOne(Val(rows[i].z)), DriftFirst)
         /\ rows[i].drift_level = "LOW"

\* C18: in every RUNNING row drift_level is the classification of that row's z
\* under the warmup flag of that commit.
C18_DriftLevelOfRowZ ==
  \A i \in 1..Len(rows) :
    rows[i].status = "RUNNING"
      => rows[i].drift_level = DriftLevel(rows[i].z, rows[i].warmup)

(***************************************************************************)
(* Properties of the calibration                                           *)
(***************************************************************************)
InPpmRange(x) ==
  /\ ~FracLess(x, Frac(-PPM_LIMIT, 1))
  /\ ~FracLess(Frac(PPM_LIMIT, 1), x)

\* C13: for any sequence of calibration steps with any rate errors, the ppm that
\* a step computes, stores as ppm_offset and hands to the oscillator driver lies
\* in [-PPM_LIMIT, +PPM_LIMIT].
C13_PpmWithinLimit ==
  /\ InPpmRange(ppm_offset)
  /\ ret.op = "_apply_calibration" => InPpmRange(ret.ppm) /\ ret.ppm = ppm_offset

\* A third or later step of a persistently negative error: the integral term
\* alone is beyond the limit, and the step stores -PPM_LIMIT.
C13_Witness ==
  /\ ret.op = "_apply_calibration"
  /\ calls >= 3
  /\ FracLess(ret.e, Frac(0, 1))
  /\ FracLess(FracMul(Frac(Ki, 1), i_term), Frac(-PPM_LIMIT, 1))
  /\ ppm_offset = Frac(-PPM_LIMIT, 1)

\* C20: every calibration step computes its error against the effective target:
\* the rate of the best peer when peer-lock is enabled and a best peer exists,
\* the one the row of that window reports as peer_rate_hz; otherwise the local
\* rate_target as the step found it; the error is 0 when that target is <= 0.
C20_ErrorAgainstEffectiveTarget ==
  \A i \in 1..Len(rows) :
    rows[i].cal # None =>
      LET c == Val(rows[i].cal)
          eff == IF cfg.peer_lock /\ rows[i].peer_rate_hz # None
                 THEN PeerRate(Val(rows[i].peer_rate_hz))
                 ELSE c.rate_target
          rate == Rate(rows[i].window_sec, rows[i].delta_count)
      IN /\ c.target = eff
         /\ c.e = IF eff.num > 0 THEN FracDiv(FracSub(eff, rate), eff) ELSE Frac(0, 1)


(***************************************************************************)
(* The control endpoints of app/main.py beside the sampling loop            *)
(***************************************************************************)
\* ppm of /api/nudge_ppm: any float of the request body
NudgePpms == {-PPM_LIMIT - 1, 0, PPM_LIMIT + 1}

\* POST /api/cal_on, POST /api/cal_off
SetCal(on) ==
  /\ cfg.cal_on # on
  /\ cfg' = [cfg EXCEPT !.cal_on = on]
  /\ UNCHANGED <<thrVars, chip, cb, loops, measVars, now, mocks, calVars, csvVars,
                 peerVars>>

\* POST /api/nudge_ppm: the ppm of the request is stored as it came; the driver's
\* nudge_ppm only stores it too.
NudgePpm(v) ==
  /\ ppm_offset' = Frac(v, 1)
  /\ UNCHANGED <<thrVars, chip, cb, loops, measVars, envVars, i_term, rate_target,
                 peer_rate_hz, peer_quality, last_z, last_rate_hz, csvVars, peerVars>>

InitControl ==
  /\ PeerInit
  /\ \E c \in BOOLEAN :
       EngInit([use_mock |-> TRUE, z_send |-> TRUE, cal_on |-> c, peer_lock |-> FALSE],
               "absent")

ControlCallStep ==
  \/ /\ rate_target = Frac(RATE_TARGET, 1)
     /\ \E v \in CalTargets \ {RATE_TARGET} : SetTarget(v)
  \/ \E on \in BOOLEAN : SetCal(on)
  \/ \E v \in NudgePpms : ppm_offset # Frac(v, 1) /\ NudgePpm(v)

ControlEnvStep ==
  \/ /\ now < MaxControlTime
     /\ PulseDone
     /\ \A t \in Tids : ~InCommit(t)
     /\ Tick
  \/ ~PulseDone /\ \E t \in Tids : MockPulse(t)

NextControl ==
  \/ SteadyCallStep("c1")
  \/ \E t \in Tids : SteadyLoopStep(t)
  \/ ControlEnvStep
  \/ ControlCallStep

SpecControl == InitControl /\ [][NextControl]_vars

\* C21: after any sequence of window commits and of set_target, calibration
\* on/off and manual ppm calls, the ppm_offset of the calibration state, which
\* status() reports and every row carries, lies in [-PPM_LIMIT, +PPM_LIMIT].
C21_PpmOffsetAlwaysWithinLimit ==
  /\ InPpmRange(ppm_offset)
  /\ \A i \in 1..Len(rows) : InPpmRange(rows[i].ppm_offset)


(***************************************************************************)
(* Two loop threads: start() after a stop() whose join timed out            *)
(***************************************************************************)
InitOverlap == PeerInit /\ EngInitFixed

OverlapCallStep(c) ==
  \/ /\ calls < MaxOverlapCalls
     /\ \/ runs + 1 \in Tids /\ Start(c)
        \/ StopCheck(c)
  \/ StopTest(c)
  \/ StopJoinCall(c)
  \/ StopJoin(c)
  \/ StopTeardown(c)

\* The loop with the commit taken statement by statement.
StatementLoopStep(t) ==
  \/ RunSetup(t, "ok")
  \/ RunTick(t)
  \/ RunWarmup(t)
  \/ RunClassify(t)
  \/ RunPeerRate(t)
  \/ RunPeerQuality(t)
  \/ RunSeq(t)
  \/ RunArgs(t)
  \/ RunWrite(t)
  \/ RunReset(t)
  \/ RunTelegram(t)
  \/ RunExit(t)
  \/ RunFinal(t)

OverlapEnvStep ==
  \/ now < MaxOverlapTime /\ Tick
  \/ count_total < MaxOverlapPulses /\ \E t \in Tids : MockPulse(t)
  \/ \E t \in Tids : MockExit(t)
  \/ \E t \in Tids : RunStallWrite(t)
  \/ \E t \in Tids : RunResume(t)

NextOverlap ==
  \/ OverlapCallStep("c1")
  \/ \E t \in Tids : StatementLoopStep(t)
  \/ OverlapEnvStep

SpecOverlap == InitOverlap /\ [][NextOverlap]_vars

\* C25: the seq values of the rows, in the order they were appended, are
\* 1, 2, 3, ... with no gap and no duplicate, over RUNNING and STOPPED rows and
\* over stop()/start() cycles; no step, start() included, takes seq or the total
\* pulse count back.
C25_SeqCountsRows ==
  /\ [](\A i \in 1..Len(rows) : rows[i].seq = i)
  /\ [][seq' >= seq /\ count_total' >= count_total]_vars


\* C24: in every state of any interleaving of start() and stop() calls at most
\* one sampling loop is alive and at most one pulse source (mock generator or
\* edge callback) is active, and, no call being under way, running is true
\* exactly while a loop is alive and the pid guard is held exactly while running
\* is true.
C24_OneLoopAndRunningWhileAlive ==
  /\ Cardinality({t \in Tids : Alive(t)}) <= 1
  /\ Cardinality({t \in Tids : mocks[t] = "alive"}) + (IF cb # None THEN 1 ELSE 0) <= 1
  /\ (\A c \in Callers : callers[c].pc = "idle") =>
       /\ running <=> (\E t \in Tids : Alive(t))
       /\ running <=> (pidfile = "self")


(***************************************************************************)
(* The loop beside the peer listener and status()                           *)
(***************************************************************************)
InitTorn == PeerInit /\ EngInitFixed

TornLoopStep(t) ==
  \/ RunSetup(t, "ok")
  \/ RunTick(t)
  \/ RunWarmup(t)
  \/ RunClassify(t)
  \/ RunPeerRate(t)
  \/ RunPeerQuality(t)
  \/ RunSeq(t)
  \/ RunArgs(t)
  \/ RunWrite(t)
  \/ RunReset(t)
  \/ RunTelegram(t)

TornEnvStep ==
  \/ now < MaxTornTime /\ Tick
  \/ /\ \E p \in LockPayloads : PeerRecv(p, "10.0.0.1")
     /\ UNCHANGED engVars

NextTorn ==
  \/ SteadyCallStep("c1")
  \/ calls < MaxTornCalls /\ Status("c2")
  \/ \E t \in Tids : TornLoopStep(t)
  \/ TornEnvStep

SpecTorn == InitTorn /\ [][NextTorn]_vars

\* The pair is empty, or it is the rate_hz and the quality (OK, as of every
\* telegram that takes part in the arbitration) of one telegram received.
FromOneObservation(rate, quality) ==
  \/ rate = None /\ quality = None
  \/ \E k \in 1..Len(peer_candidates) :
       rate = Some(peer_candidates[k].rate) /\ quality = Some("OK")

\* C22: whatever the interleaving of the listener's best-peer update with a
\* commit or a status query, the peer fields of every row and of every status
\* snapshot come from one observation of the peer: peer_rate_hz is empty exactly
\* when peer_quality is, and both are those of one telegram.
C22_PeerFieldsFromOneObservation ==
  /\ \A i \in 1..Len(rows) : FromOneObservation(rows[i].peer_rate_hz, rows[i].peer_quality)
  /\ ret.op = "status" => FromOneObservation(ret.peer_rate_hz, ret.peer_quality)


(***************************************************************************)
(* The telegram branch statement by statement                               *)
(***************************************************************************)
\* Lines 356-368: the interval test, the local z, and the arguments of
\* emit_peer up to quality, from the attributes and the ring as they are now.
\* rows and z_value are kept for the properties: the number of rows written and
\* self._last_z when the arguments were taken.
RunTelegramArgs(t) ==
  /\ loops[t].pc = "telegram"
  /\ CanStep(t)
  /\ IF cfg.z_send /\ (loops[t].now - z_last_emit) >= Z_SEND_INTERVAL_SEC
     THEN LET z == ComputeZ(last_window_sec, loops[t].dc)
          IN loops' = [loops EXCEPT
               ![t].pc = "emit", ![t].zbound = TRUE, ![t].loc.z = z,
               ![t].loc.row = Some([seq |-> seq, rate_hz |-> last_rate_hz, z |-> z,
                                    ppm_offset |-> ppm_offset,
                                    quality |-> QualityAndLock.quality,
                                    rows |-> Len(rows), z_value |-> last_z])]
     ELSE loops' = [loops EXCEPT ![t].pc = "wait",
                                 ![t].now = 0, ![t].dt = 0, ![t].dc = 0]
  /\ UNCHANGED <<thrVars, chip, cb, measVars, envVars, calVars, csvVars, peerVars>>

EmittedTelegram(args, lock_state) ==
  [seq |-> args.seq, rate_hz |-> args.rate_hz, z |-> args.z,
   ppm_offset |-> args.ppm_offset, quality |-> args.quality,
   lock_state |-> lock_state, rows |-> args.rows, z_value |-> args.z_value]

\* Lines 369-371: lock_state from a second call of _quality_and_lock, the
\* telegram is sent, and the time of the tick becomes self._z_last_emit.
RunEmit(t) ==
  /\ loops[t].pc = "emit"
  /\ CanStep(t)
  /\ z_last_emit' = loops[t].now
  /\ loops' = [loops EXCEPT
       ![t].pc = "wait", ![t].now = 0, ![t].dt = 0, ![t].dc = 0,
       ![t].loc.row = None,
       ![t].loc.tele = Some(EmittedTelegram(Val(loops[t].loc.row),
                                            QualityAndLock.lock_state))]
  /\ UNCHANGED <<thrVars, chip, cb, seq, count_total, window_count0, t0,
                 last_window_sec, z_ref_times, rows, envVars, calVars, csvVars, peerVars>>

InitTele == PeerInit /\ EngInitFixed

TeleLoopStep(t) ==
  \/ RunSetup(t, "ok")
  \/ PulseDone /\ RunTick(t)
  \/ RunWarmup(t)
  \/ RunClassify(t)
  \/ RunCommit(t)
  \/ RunReset(t)
  \/ RunTelegramArgs(t)
  \/ RunEmit(t)

TeleEnvStep ==
  \/ now < MaxTeleTime /\ PulseDone /\ Tick
  \/ ~PulseDone /\ \E t \in Tids : MockPulse(t)

NextTele ==
  \/ SteadyCallStep("c1")
  \/ \E t \in Tids : TeleLoopStep(t)
  \/ TeleEnvStep

SpecTele == InitTele /\ [][NextTele]_vars

\* Two optional floats are the same number, or both absent.
SameFloat(a, b) ==
  \/ a = None /\ b = None
  \/ a # None /\ b # None /\ ~FracLess(Val(a), Val(b)) /\ ~FracLess(Val(b), Val(a))

\* C23: a telegram of the sampling loop carries the rate_hz and the z of the
\* window committed last (the z of that window's row, which status() reports as
\* z_value), and a quality and lock_state that are one pair of the
\* quality_and_lock mapping; and the telegram branch is left without sending
\* only when less than Z_SEND_INTERVAL_SEC has passed since the last telegram,
\* whether or not the tick committed a window.
C23_TelegramCarriesLatestMeasurement ==
  /\ [](\A t \in Tids :
          loops[t].loc.tele # None =>
            LET m == Val(loops[t].loc.tele)
            IN /\ <<m.quality, m.lock_state>> \in PairsOfMapping
               /\ m.rows > 0 =>
                    /\ SameFloat(m.z, rows[m.rows].z)
                    /\ SameFloat(m.z, m.z_value)
                    /\ SameFloat(Some(m.rate_hz),
                                 Some(Rate(rows[m.rows].window_sec,
                                           rows[m.rows].delta_count))))
  /\ [][\A t \in Tids :
          (loops[t].pc = "telegram" /\ loops'[t].pc = "wait") =>
            loops[t].now - z_last_emit < Z_SEND_INTERVAL_SEC]_vars


(***************************************************************************)
(* A loop that keeps ticking, with ticks that may come late                 *)
(***************************************************************************)
InitDelay == PeerInit /\ EngInitFixed

DelayLoopStep(t) ==
  \/ RunSetup(t, "ok")
  \/ RunTick(t)
  \/ RunWarmup(t)
  \/ RunClassify(t)
  \/ RunCommit(t)
  \/ RunReset(t)
  \/ RunTelegram(t)

DelayEnvStep ==
  \/ now < MaxDelayTime /\ Tick
  \/ count_total < MaxDelayPulses /\ \E t \in Tids : MockPulse(t)

NextDelay ==
  \/ SteadyCallStep("c1")
  \/ \E t \in Tids : DelayLoopStep(t)
  \/ DelayEnvStep

SpecDelay == InitDelay /\ [][NextDelay]_vars

\* The loop thread is scheduled: it keeps taking its next step. Nothing is
\* assumed of how many steps it gets between two readings of the clock.
SpecDelayFair == SpecDelay /\ \A t \in Tids : WF_vars(DelayLoopStep(t))

\* C26: while the engine is Running and its loop keeps ticking, a window that
\* has reached TIME_WINDOW_SEC is eventually committed as a RUNNING row, also
\* when the first tick to observe it came at dt >= TIME_WINDOW_SEC + 0.2. (A
\* window is one whose origin the loop has set: the thread is past its setup.)
C26_WindowsKeepCommitting ==
  \A k \in 0..MaxDelayTime : \A t \in Tids :
    (running /\ Alive(t) /\ loops[t].pc # "setup" /\ t0 = k
       /\ now - k >= TIME_WINDOW_SEC)
      ~> \/ ~running
         \/ ~Alive(t)
         \/ \E i \in 1..Len(rows) :
              rows[i].status = "RUNNING" /\ rows[i].at >= k + TIME_WINDOW_SEC

====
